---- MODULE Spec2Model ----
(***************************************************************************)
(* junctional: the Result type (src/src/result.ts) and the Option type     *)
(* (src/unnamed/part_001, option.ts) as two state machines over a heap of  *)
(* instances.  Every static factory and every instance method is one       *)
(* action; the method bodies are the operators Result_* and Option_*.      *)
(***************************************************************************)
EXTENDS Integers, Sequences, FiniteSets

VARIABLES
    results,   \* the Result instances constructed so far: <<[value, error]>>
    options,   \* the Option instances constructed so far: <<[value]>>
    task,      \* the one outstanding async call (fromAsync, tryAsync) and its promises
    born,      \* how the newest Result was constructed (history)
    last,      \* the most recent call: operation, receiver, arguments, outcome
    calls      \* the callbacks the most recent call invoked, in order

vars == <<results, options, task, born, last, calls>>

\* Bounds of the model.
MaxResults == 2
MaxOptions == 2

(***************************************************************************)
(* JavaScript values.  undefined and null are the two absence sentinels;   *)
(* Omitted marks an argument that was not passed at all.                   *)
(***************************************************************************)
Undefined == [t |-> "undefined"]
Null == [t |-> "null"]
Omitted == [t |-> "omitted"]
Num(n) == [t |-> "number", n |-> n]
Str(s) == [t |-> "string", s |-> s]
Bool(b) == [t |-> "boolean", b |-> b]
\* Error(message): an Error object, compared by its message.
ErrorObj(message) == [t |-> "error", message |-> message]

Values == {Undefined, Null, Num(0), Num(42), Str(""), Bool(FALSE)}
Sentinels == {Undefined, Null}

\* The decimal digits of a natural number, as "" + n gives them.
RECURSIVE NatToString(_)
NatToString(n) ==
    LET digit == <<"0", "1", "2", "3", "4", "5", "6", "7", "8", "9">>[(n % 10) + 1]
    IN  IF n < 10 THEN digit ELSE NatToString(n \div 10) \o digit

\* ToString of the ECMAScript specification, as the + of a string and a
\* value applies it (result.ts:49).
ToString(v) ==
    CASE v.t = "undefined" -> "undefined"
      [] v.t = "null"      -> "null"
      [] v.t = "number"    -> IF v.n < 0 THEN "-" \o NatToString(-v.n) ELSE NatToString(v.n)
      [] v.t = "string"    -> v.s
      [] v.t = "boolean"   -> IF v.b THEN "true" ELSE "false"
      [] v.t = "error"     -> IF v.message = "" THEN "Error" ELSE "Error: " \o v.message

(***************************************************************************)
(* Completions: how a call ends (it returns a value, returns a new         *)
(* instance, or throws), together with the callbacks it invoked.           *)
(***************************************************************************)
NoObject == [none |-> TRUE]
Return(v) == [kind |-> "return", val |-> v, res |-> NoObject, calls |-> <<>>]
ReturnNew(o) == [kind |-> "return", val |-> Undefined, res |-> o, calls |-> <<>>]
Throw(x) == [kind |-> "throw", val |-> x, res |-> NoObject, calls |-> <<>>]
After(c, invoked) == [c EXCEPT !.calls = invoked \o c.calls]

(***************************************************************************)
(* Caller-supplied callbacks: opaque but for their outcome.  A callback    *)
(* returns a fixed value, throws a fixed value, or returns its argument.   *)
(***************************************************************************)
Returns(id, v) == [id |-> id, kind |-> "returns", val |-> v]
Throws(id, x) == [id |-> id, kind |-> "throws", val |-> x]
Identity(id) == [id |-> id, kind |-> "identity", val |-> Undefined]
Callbacks(id) ==
    {Returns(id, v) : v \in Values} \cup {Throws(id, x) : x \in Values} \cup {Identity(id)}

\* What fn(arg) does, without the bookkeeping.
Apply(fn, arg) ==
    CASE fn.kind = "returns"  -> [kind |-> "return", val |-> fn.val]
      [] fn.kind = "throws"   -> [kind |-> "throw", val |-> fn.val]
      [] fn.kind = "identity" -> [kind |-> "return", val |-> arg]

\* fn(arg) as a completion that records the invocation.
Invoke(fn, arg) ==
    LET c == Apply(fn, arg)
    IN  After(IF c.kind = "return" THEN Return(c.val) ELSE Throw(c.val),
              <<[fn |-> fn, arg |-> arg]>>)

(***************************************************************************)
(* Result (src/src/result.ts)                                              *)
(***************************************************************************)
\* A parameter default `= undefined as any` (result.ts:110, 114).
DefaultUndefined(arg) == IF arg = Omitted \/ arg = Undefined THEN Undefined ELSE arg

\* constructor: a field that is never assigned reads as undefined.
ResultNew(key, payload) ==
    IF key = "Ok"
    THEN [value |-> payload, error |-> Undefined]
    ELSE [value |-> Undefined, error |-> payload]

Result_ok(value) == ResultNew("Ok", DefaultUndefined(value))

Result_err(error) == ResultNew("Err", DefaultUndefined(error))

Result_try(fn, arg) ==
    LET c == Invoke(fn, arg)
    IN  IF c.kind = "return"
        THEN After(ReturnNew(Result_ok(c.val)), c.calls)
        ELSE After(ReturnNew(Result_err(c.val)), c.calls)

\* Mutant: match decides by the value slot, as unwrap does.
\* tryAsync from the point where fn(...args) has thrown (state "threw") or
\* the promise it returned has settled: the try block returns ok(value),
\* the catch block err(error), for a rejection and for a synchronous throw.
Result_tryAsync_resume(computation) ==
    IF computation.state = "fulfilled"
    THEN ReturnNew(Result_ok(computation.val))
    ELSE ReturnNew(Result_err(computation.val))

\* Mutant: match decides by the value slot, as unwrap does.
Result_match_byValue(this, onOk, onErr) ==
    IF this.value = Undefined
    THEN Invoke(onErr, this.error)
    ELSE Invoke(onOk, this.value)

Result_match(this, onOk, onErr) ==
    IF this.error # Undefined
    THEN Invoke(onErr, this.error)
    ELSE Invoke(onOk, this.value)

Result_or(this, defaultValue) ==
    IF this.value # Undefined THEN Return(this.value) ELSE Return(defaultValue)

\* Mutant: map calls the mapper outside try, so its exception escapes.
Result_map_uncaught(this, mapper) ==
    IF this.error # Undefined
    THEN ReturnNew(Result_err(this.error))
    ELSE LET c == Invoke(mapper, this.value)
         IN  IF c.kind = "return" THEN After(ReturnNew(Result_ok(c.val)), c.calls) ELSE c

Result_map(this, mapper) ==
    IF this.error # Undefined
    THEN ReturnNew(Result_err(this.error))
    ELSE Result_try(mapper, this.value)

UnwrapErrPrefix == "Attempted to unwrap an Err value Result. Error: "

Result_unwrap(this) ==
    IF this.value = Undefined
    THEN Throw(ErrorObj(UnwrapErrPrefix \o ToString(this.error)))
    ELSE Return(this.value)

Result_expect(this, message) ==
    IF this.value = Undefined THEN Throw(ErrorObj(message)) ELSE Return(this.value)

Result_unwrapErr(this) ==
    IF this.error = Undefined
    THEN Throw(ErrorObj("Attempted to unwrap error for an Ok value Result."))
    ELSE Return(this.error)

Result_expectErr(this, message) ==
    IF this.error = Undefined THEN Throw(ErrorObj(message)) ELSE Return(this.error)

Result_isOk(this) == Return(Bool(this.error = Undefined))

Result_isErr(this) == Return(Bool(this.error # Undefined))

(***************************************************************************)
(* Option (src/unnamed/part_001)                                           *)
(***************************************************************************)
\* Mutant: the constructor stores the payload whatever the key, so that
\* none() keeps the null it passes.
OptionNew_storesPayload(key, payload) == [value |-> payload]

OptionNew(key, payload) ==
    IF key = "None" THEN [value |-> Undefined] ELSE [value |-> payload]

Option_none == ReturnNew(OptionNew("None", Null))

\* Mutant: some forgets the null check.
Option_some_allowsNull(value) ==
    IF value = Undefined
    THEN Throw(ErrorObj("Cannot create a Some Option with an undefined value."))
    ELSE ReturnNew(OptionNew("Some", value))

Option_some(value) ==
    IF value = Undefined
    THEN Throw(ErrorObj("Cannot create a Some Option with an undefined value."))
    ELSE IF value = Null
         THEN Throw(ErrorObj("Cannot create a Some Option with a null value."))
         ELSE ReturnNew(OptionNew("Some", value))

\* Mutant: from forgets the null check and hands null to some.
Option_from_undefinedOnly(value) ==
    IF value = Undefined THEN Option_none ELSE Option_some(value)

Option_from(value) ==
    IF value = Undefined
    THEN Option_none
    ELSE IF value = Null THEN Option_none ELSE Option_some(value)

\* Mutant: map wraps the mapper's output with some instead of from.
Option_map_viaSome(this, mapper) ==
    IF this.value = Undefined
    THEN Option_none
    ELSE LET c == Invoke(mapper, this.value)
         IN  IF c.kind = "throw" THEN c ELSE After(Option_some(c.val), c.calls)

\* Mutant: map captures a throwing mapper as an absent Option.
Option_map_captures(this, mapper) ==
    IF this.value = Undefined
    THEN Option_none
    ELSE LET c == Invoke(mapper, this.value)
         IN  IF c.kind = "throw"
             THEN After(Option_none, c.calls)
             ELSE After(Option_from(c.val), c.calls)

\* mapper(this.value) is evaluated first: when it throws, from is never
\* reached and the exception leaves map.
Option_map(this, mapper) ==
    IF this.value = Undefined
    THEN Option_none
    ELSE LET c == Invoke(mapper, this.value)
         IN  IF c.kind = "throw" THEN c ELSE After(Option_from(c.val), c.calls)

Option_unwrap(this) ==
    IF this.value = Undefined
    THEN Throw(ErrorObj("Attempted to unwrap a None value Option."))
    ELSE Return(this.value)

Option_expect(this, message) ==
    IF this.value = Undefined THEN Throw(ErrorObj(message)) ELSE Return(this.value)

\* Mutant: unwrapNone tests for absence with the wrong sense.
Option_unwrapNone_inverted(this) ==
    IF this.value = Undefined
    THEN Throw(ErrorObj("Attempted to unwrap a Some value Option."))
    ELSE Return(Undefined)

Option_unwrapNone(this) ==
    IF this.value # Undefined
    THEN Throw(ErrorObj("Attempted to unwrap a Some value Option."))
    ELSE Return(Undefined)

Option_expectNone(this, message) ==
    IF this.value # Undefined THEN Throw(ErrorObj(message)) ELSE Return(Undefined)

\* The None handler takes no argument: it is invoked with undefined.
Option_match(this, onSome, onNone) ==
    IF this.value = Undefined
    THEN Invoke(onNone, Undefined)
    ELSE Invoke(onSome, this.value)

Option_or(this, defaultValue) ==
    IF this.value = Undefined THEN Return(defaultValue) ELSE Return(this.value)

Option_isSome(this) == Return(Bool(this.value # Undefined))

Option_isNone(this) == Return(Bool(this.value = Undefined))

\* Mutant: a rejection is captured as an absent Option.
Option_fromAsync_resume_captures(promise) ==
    IF promise.state = "fulfilled" THEN Option_from(promise.val) ELSE Option_none

\* fromAsync after its await: a fulfilled promise resumes the function
\* with the value, a rejected one throws the reason at the await, which
\* nothing catches.
Option_fromAsync_resume(promise) ==
    IF promise.state = "fulfilled" THEN Option_from(promise.val) ELSE Throw(promise.val)

(***************************************************************************)
(* The state machine of Result.                                            *)
(***************************************************************************)
NoCall == [op |-> "none", recv |-> 0, args |-> <<>>,
           out |-> [kind |-> "return", val |-> Undefined, obj |-> 0]]
NotBorn == [op |-> "none", kind |-> "none", val |-> Undefined, obj |-> 0]

Pending == [state |-> "pending", val |-> Undefined, obj |-> 0]
Idle == [fn |-> "none", state |-> "idle", promise |-> Pending, ret |-> Pending]

Init ==
    /\ results = <<>>
    /\ options = <<>>
    /\ task = Idle
    /\ born = NotBorn
    /\ last = NoCall
    /\ calls = <<>>

\* The outcome of a call that produced no instance.
Outcome(c) == [kind |-> c.kind, val |-> c.val, obj |-> 0]
\* The outcome of a call that returned the instance now at heap index i.
OutcomeNew(i) == [kind |-> "return", val |-> Undefined, obj |-> i]

Messages == {"Expected a number"}
ResultDefaults == {Num(0)}
OkHandlers == {Identity("onOk"), Throws("onOk", Str("boom"))}
ErrHandlers == {Identity("onErr"), Returns("onErr", Num(0))}

\* The heap slot an awaiting tryAsync call will need when it resumes.
ResultReserved == IF task.state = "awaiting" THEN 1 ELSE 0

\* A factory or map returned a new Result: it joins the heap.
ResultCreated(op, recv, args, c, how, what) ==
    /\ c.kind = "return"
    /\ results' = Append(results, c.res)
    /\ born' = [op |-> op, kind |-> how, val |-> what, obj |-> Len(results) + 1]
    /\ last' = [op |-> op, recv |-> recv, args |-> args, out |-> OutcomeNew(Len(results) + 1)]
    /\ calls' = c.calls
    /\ UNCHANGED <<options, task>>

\* Mutant: or() caches the default it returned in the receiver.
ResultInspected_orCaches(op, recv, args, c) ==
    /\ last' = [op |-> op, recv |-> recv, args |-> args, out |-> Outcome(c)]
    /\ calls' = c.calls
    /\ results' = IF op = "or" THEN [results EXCEPT ![recv].value = c.val] ELSE results
    /\ UNCHANGED <<options, task, born>>

\* A method returned a value or threw: no instance is created or changed.
ResultInspected(op, recv, args, c) ==
    /\ last' = [op |-> op, recv |-> recv, args |-> args, out |-> Outcome(c)]
    /\ calls' = c.calls
    /\ UNCHANGED <<results, options, task, born>>

DoOk ==
    \E value \in Values \cup {Omitted} :
        /\ Len(results) + ResultReserved < MaxResults
        /\ ResultCreated("ok", 0, <<value>>, ReturnNew(Result_ok(value)), "arg", value)

DoErr ==
    \E error \in Values \cup {Omitted} :
        /\ Len(results) + ResultReserved < MaxResults
        /\ ResultCreated("err", 0, <<error>>, ReturnNew(Result_err(error)), "arg", error)

DoTry ==
    \E fn \in Callbacks("fn"), arg \in {Num(42)} :
        LET c == Result_try(fn, arg)
            f == Apply(fn, arg)
        IN  /\ Len(results) + ResultReserved < MaxResults
            /\ IF c.kind = "return"
               THEN ResultCreated("try", 0, <<fn, arg>>, c, f.kind, f.val)
               ELSE ResultInspected("try", 0, <<fn, arg>>, c)

DoMap ==
    \E i \in 1..Len(results), mapper \in Callbacks("mapper") :
        LET this == results[i]
            c == Result_map(this, mapper)
            f == Apply(mapper, this.value)
        IN  /\ Len(results) + ResultReserved < MaxResults
            /\ IF c.kind = "return"
               THEN IF c.calls = <<>>
                    THEN ResultCreated("map", i, <<mapper>>, c, "skipped", this.error)
                    ELSE ResultCreated("map", i, <<mapper>>, c, f.kind, f.val)
               ELSE ResultInspected("map", i, <<mapper>>, c)

DoMatch ==
    \E i \in 1..Len(results), onOk \in OkHandlers, onErr \in ErrHandlers :
        ResultInspected("match", i, <<onOk, onErr>>, Result_match(results[i], onOk, onErr))

DoOr ==
    \E i \in 1..Len(results), defaultValue \in ResultDefaults :
        ResultInspected("or", i, <<defaultValue>>, Result_or(results[i], defaultValue))

DoUnwrap ==
    \E i \in 1..Len(results) :
        ResultInspected("unwrap", i, <<>>, Result_unwrap(results[i]))

DoExpect ==
    \E i \in 1..Len(results), message \in Messages :
        ResultInspected("expect", i, <<message>>, Result_expect(results[i], message))

DoUnwrapErr ==
    \E i \in 1..Len(results) :
        ResultInspected("unwrapErr", i, <<>>, Result_unwrapErr(results[i]))

DoExpectErr ==
    \E i \in 1..Len(results), message \in Messages :
        ResultInspected("expectErr", i, <<message>>, Result_expectErr(results[i], message))

DoIsOk ==
    \E i \in 1..Len(results) :
        ResultInspected("isOk", i, <<>>, Result_isOk(results[i]))

DoIsErr ==
    \E i \in 1..Len(results) :
        ResultInspected("isErr", i, <<>>, Result_isErr(results[i]))

ResultNext ==
    \/ DoOk
    \/ DoErr
    \/ DoTry
    \/ DoMap
    \/ DoMatch
    \/ DoOr
    \/ DoUnwrap
    \/ DoExpect
    \/ DoUnwrapErr
    \/ DoExpectErr
    \/ DoIsOk
    \/ DoIsErr

ResultSpec == Init /\ [][ResultNext]_vars

(***************************************************************************)
(* Result.tryAsync is an async function: the call invokes fn(...args); if  *)
(* that throws, the catch block settles the returned promise at once;      *)
(* otherwise the call suspends at its await and returns a pending promise, *)
(* the promise fn returned settles, and tryAsync resumes.  One call is     *)
(* outstanding at a time.                                                  *)
(***************************************************************************)
AsyncValues == {Undefined, Null, Num(42)}
AsyncReasons == {Undefined, Str("error")}
Threw(x) == [state |-> "threw", val |-> x, obj |-> 0]
Computations ==
    {[state |-> "fulfilled", val |-> v, obj |-> 0] : v \in AsyncValues}
        \cup {[state |-> "rejected", val |-> r, obj |-> 0] : r \in AsyncReasons}

\* tryAsync ran to its end: the Result it returns joins the heap and
\* settles the promise the call returned.
TryAsyncReturned(op, args, computation) ==
    LET c == Result_tryAsync_resume(computation)
        i == Len(results) + 1
    IN  /\ results' = Append(results, c.res)
        /\ born' = [op |-> "tryAsync", kind |-> computation.state,
                    val |-> computation.val, obj |-> i]
        /\ task' = [fn |-> "tryAsync", state |-> "done", promise |-> computation,
                    ret |-> [state |-> "fulfilled", val |-> Undefined, obj |-> i]]
        /\ last' = [op |-> op, recv |-> 0, args |-> args, out |-> OutcomeNew(i)]
        /\ calls' = <<>>
        /\ UNCHANGED options

\* Result.tryAsync(fn): fn throws x synchronously, or returns a promise
\* that is pending or already settled.
DoTryAsync ==
    \E started \in {Threw(x) : x \in AsyncReasons} \cup Computations \cup {Pending} :
        /\ task.state \in {"idle", "done"}
        /\ Len(results) < MaxResults
        /\ IF started.state = "threw"
           THEN TryAsyncReturned("tryAsync", <<started>>, started)
           ELSE /\ task' = [fn |-> "tryAsync", state |-> "awaiting",
                            promise |-> started, ret |-> Pending]
                /\ last' = [op |-> "tryAsync", recv |-> 0, args |-> <<started>>,
                            out |-> [kind |-> "promise", val |-> Undefined, obj |-> 0]]
                /\ calls' = <<>>
                /\ UNCHANGED <<results, options, born>>

\* The promise fn returned settles.
SettleTryAsync ==
    \E outcome \in Computations :
        /\ task.fn = "tryAsync"
        /\ task.state = "awaiting"
        /\ task.promise.state = "pending"
        /\ task' = [task EXCEPT !.promise = outcome]
        /\ last' = [op |-> "settle", recv |-> 0, args |-> <<outcome>>,
                    out |-> [kind |-> "none", val |-> Undefined, obj |-> 0]]
        /\ calls' = <<>>
        /\ UNCHANGED <<results, options, born>>

\* tryAsync resumes after its await.
ResumeTryAsync ==
    /\ task.fn = "tryAsync"
    /\ task.state = "awaiting"
    /\ task.promise.state # "pending"
    /\ TryAsyncReturned("tryAsync.resume", <<>>, task.promise)

ResultAsyncNext ==
    \/ ResultNext
    \/ DoTryAsync
    \/ SettleTryAsync
    \/ ResumeTryAsync

ResultAsyncSpec == Init /\ [][ResultAsyncNext]_vars

(***************************************************************************)
(* The state machine of Option.  Option.fromAsync is an async function:    *)
(* the call returns a pending promise and suspends at its await; the       *)
(* awaited promise settles; the function resumes and settles the promise   *)
(* it returned.  One call is outstanding at a time.                        *)
(***************************************************************************)
Reasons == {Str("error"), Null}
Fulfilled(v) == [state |-> "fulfilled", val |-> v, obj |-> 0]
Rejected(r) == [state |-> "rejected", val |-> r, obj |-> 0]
Settled == {Fulfilled(v) : v \in Values} \cup {Rejected(r) : r \in Reasons}

OptionDefaults == {Num(7)}
SomeHandlers == {Identity("onSome"), Throws("onSome", Str("boom"))}
NoneHandlers == {Returns("onNone", Num(0))}

\* The heap slot an awaiting fromAsync call will need when it resumes.
Reserved == IF task.state = "awaiting" THEN 1 ELSE 0

\* The heap has room for the instance a call ending as c returns, if any.
HasRoom(c) == c.res # NoObject => Len(options) + Reserved < MaxOptions

\* A call on Option ended as c: a returned instance joins the heap.
OptionCall(op, recv, args, c) ==
    /\ options' = IF c.res # NoObject THEN Append(options, c.res) ELSE options
    /\ last' = [op |-> op, recv |-> recv, args |-> args,
                out |-> IF c.res # NoObject THEN OutcomeNew(Len(options) + 1) ELSE Outcome(c)]
    /\ calls' = c.calls
    /\ UNCHANGED <<results, task, born>>

DoSome ==
    \E value \in Values :
        /\ HasRoom(Option_some(value))
        /\ OptionCall("some", 0, <<value>>, Option_some(value))

DoNone ==
    /\ HasRoom(Option_none)
    /\ OptionCall("none", 0, <<>>, Option_none)

DoFrom ==
    \E value \in Values :
        /\ HasRoom(Option_from(value))
        /\ OptionCall("from", 0, <<value>>, Option_from(value))

DoOptionMap ==
    \E i \in 1..Len(options), mapper \in Callbacks("mapper") :
        /\ HasRoom(Option_map(options[i], mapper))
        /\ OptionCall("map", i, <<mapper>>, Option_map(options[i], mapper))

DoOptionUnwrap ==
    \E i \in 1..Len(options) : OptionCall("unwrap", i, <<>>, Option_unwrap(options[i]))

DoOptionExpect ==
    \E i \in 1..Len(options), message \in Messages :
        OptionCall("expect", i, <<message>>, Option_expect(options[i], message))

DoUnwrapNone ==
    \E i \in 1..Len(options) :
        OptionCall("unwrapNone", i, <<>>, Option_unwrapNone(options[i]))

DoExpectNone ==
    \E i \in 1..Len(options), message \in Messages :
        OptionCall("expectNone", i, <<message>>, Option_expectNone(options[i], message))

DoOptionMatch ==
    \E i \in 1..Len(options), onSome \in SomeHandlers, onNone \in NoneHandlers :
        OptionCall("match", i, <<onSome, onNone>>, Option_match(options[i], onSome, onNone))

DoOptionOr ==
    \E i \in 1..Len(options), defaultValue \in OptionDefaults :
        OptionCall("or", i, <<defaultValue>>, Option_or(options[i], defaultValue))

DoIsSome ==
    \E i \in 1..Len(options) : OptionCall("isSome", i, <<>>, Option_isSome(options[i]))

DoIsNone ==
    \E i \in 1..Len(options) : OptionCall("isNone", i, <<>>, Option_isNone(options[i]))

\* Option.fromAsync(value): runs up to `await value` and returns a pending
\* promise.  The promise passed in may be pending or already settled.
DoFromAsync ==
    \E promise \in Settled \cup {Pending} :
        /\ task.state \in {"idle", "done"}
        /\ Len(options) < MaxOptions
        /\ task' = [fn |-> "fromAsync", state |-> "awaiting",
                    promise |-> promise, ret |-> Pending]
        /\ last' = [op |-> "fromAsync", recv |-> 0, args |-> <<promise>>,
                    out |-> [kind |-> "promise", val |-> Undefined, obj |-> 0]]
        /\ calls' = <<>>
        /\ UNCHANGED <<results, options, born>>

\* The awaited computation settles.
Settle ==
    \E outcome \in Settled :
        /\ task.fn = "fromAsync"
        /\ task.state = "awaiting"
        /\ task.promise.state = "pending"
        /\ task' = [task EXCEPT !.promise = outcome]
        /\ last' = [op |-> "settle", recv |-> 0, args |-> <<outcome>>,
                    out |-> [kind |-> "none", val |-> Undefined, obj |-> 0]]
        /\ calls' = <<>>
        /\ UNCHANGED <<results, options, born>>

\* fromAsync resumes after its await and settles the promise it returned.
ResumeFromAsync ==
    /\ task.fn = "fromAsync"
    /\ task.state = "awaiting"
    /\ task.promise.state # "pending"
    /\ LET c == Option_fromAsync_resume(task.promise)
       IN  /\ options' = IF c.res # NoObject THEN Append(options, c.res) ELSE options
           /\ task' = [task EXCEPT
                  !.state = "done",
                  !.ret = IF c.kind = "return"
                          THEN [state |-> "fulfilled", val |-> Undefined, obj |-> Len(options) + 1]
                          ELSE Rejected(c.val)]
           /\ last' = [op |-> "fromAsync.resume", recv |-> 0, args |-> <<>>,
                       out |-> IF c.res # NoObject
                               THEN OutcomeNew(Len(options) + 1)
                               ELSE Outcome(c)]
           /\ calls' = c.calls
    /\ UNCHANGED <<results, born>>

OptionNext ==
    \/ DoSome
    \/ DoNone
    \/ DoFrom
    \/ DoOptionMap
    \/ DoOptionUnwrap
    \/ DoOptionExpect
    \/ DoUnwrapNone
    \/ DoExpectNone
    \/ DoOptionMatch
    \/ DoOptionOr
    \/ DoIsSome
    \/ DoIsNone
    \/ DoFromAsync
    \/ Settle
    \/ ResumeFromAsync

OptionSpec == Init /\ [][OptionNext]_vars

TypeOK ==
    /\ Len(results) <= MaxResults
    /\ Len(options) <= MaxOptions
    /\ \A i \in 1..Len(results) : DOMAIN results[i] = {"value", "error"}
    /\ \A i \in 1..Len(options) : DOMAIN options[i] = {"value"}
    /\ task.fn \in {"none", "fromAsync", "tryAsync"}
    /\ task.state \in {"idle", "awaiting", "done"}
    /\ task.state = "idle" <=> task.fn = "none"

(***************************************************************************)
(* The library: both classes.  Neither class refers to the other and no    *)
(* state is shared between them, so a behaviour of the library is followed *)
(* on one class at a time: it works on Results while no Option exists and  *)
(* on Options while no Result exists.                                      *)
(***************************************************************************)
OnResults == options = <<>> /\ task.fn # "fromAsync"
OnOptions == results = <<>> /\ task.fn # "tryAsync"

LibraryNext ==
    \/ OnResults /\ ResultAsyncNext
    \/ OnOptions /\ OptionNext

LibrarySpec == Init /\ [][LibraryNext]_vars

(***************************************************************************)
(* Claims about Result, checked under ResultSpec.                          *)
(***************************************************************************)
\* The receiver of the most recent call is the newest Result.
OnNewest(op) == born.op = op /\ last.recv = born.obj

\* C1: for every value v accepted by Result.ok (0, "", false, null and an
\* omitted or undefined value included), Result.ok(v).unwrap() returns v
\* without raising, Result.ok(v).isOk() is true and isErr() is false.
C1_OkUnwrapsItsValue ==
    OnNewest("ok") =>
        /\ last.op = "unwrap" => last.out = Outcome(Return(DefaultUndefined(born.val)))
        /\ last.op = "isOk" => last.out = Outcome(Return(Bool(TRUE)))
        /\ last.op = "isErr" => last.out = Outcome(Return(Bool(FALSE)))

\* C2: for every error e accepted by Result.err (null and an omitted or
\* undefined error included), Result.err(e).unwrapErr() returns e without
\* raising, isErr() is true, and unwrap() raises an Error whose message is
\* "Attempted to unwrap an Err value Result. Error: " followed by String(e).
C2_ErrUnwrapsItsError ==
    OnNewest("err") =>
        /\ last.op = "unwrapErr" => last.out = Outcome(Return(DefaultUndefined(born.val)))
        /\ last.op = "isErr" => last.out = Outcome(Return(Bool(TRUE)))
        /\ last.op = "unwrap" =>
               last.out = Outcome(Throw(ErrorObj(
                   "Attempted to unwrap an Err value Result. Error: "
                       \o ToString(DefaultUndefined(born.val)))))

\* C3: Result.try(fn, ...args) never raises; when fn returns r the outcome
\* is an Ok Result (isOk() true, isErr() false, unwrap() = r) and when fn
\* throws x it is an Err Result (isErr() true, isOk() false,
\* unwrapErr() = x), for every r and every x.
C3_TryCaptures ==
    /\ last.op = "try" => last.out.kind = "return" /\ last.out.obj > 0
    /\ (OnNewest("try") /\ born.kind = "return") =>
           /\ last.op = "isOk" => last.out = Outcome(Return(Bool(TRUE)))
           /\ last.op = "isErr" => last.out = Outcome(Return(Bool(FALSE)))
           /\ last.op = "unwrap" => last.out = Outcome(Return(born.val))
    /\ (OnNewest("try") /\ born.kind = "throw") =>
           /\ last.op = "isErr" => last.out = Outcome(Return(Bool(TRUE)))
           /\ last.op = "isOk" => last.out = Outcome(Return(Bool(FALSE)))
           /\ last.op = "unwrapErr" => last.out = Outcome(Return(born.val))

ExactlyOne(a, b) == (a /\ ~b) \/ (~a /\ b)

\* C5: on every Result obtainable by ok, err, try and map, unwrap() and
\* expect(m) return the success value exactly when isOk() is true, and
\* unwrapErr() and expectErr(m) return the error exactly when isErr() is
\* true; hence exactly one of unwrap() and unwrapErr() succeeds.
C5_UnwrapSucceedsIffOk ==
    /\ last.op \in {"unwrap", "expect"} =>
           /\ (last.out.kind = "return") <=> (Result_isOk(results[last.recv]).val = Bool(TRUE))
           /\ last.out.kind = "return" => last.out.val = results[last.recv].value
    /\ last.op \in {"unwrapErr", "expectErr"} =>
           /\ (last.out.kind = "return") <=> (Result_isErr(results[last.recv]).val = Bool(TRUE))
           /\ last.out.kind = "return" => last.out.val = results[last.recv].error
    /\ \A i \in 1..Len(results) :
           ExactlyOne(Result_unwrap(results[i]).kind = "return",
                      Result_unwrapErr(results[i]).kind = "return")

\* C6: Result.match({onOk, onErr}) invokes exactly one handler exactly once
\* and ends as that handler ends: onErr(error) when isErr() is true,
\* otherwise onOk(value); the other handler is never invoked.
C6_MatchInvokesOneHandler ==
    last.op = "match" =>
        LET this == results[last.recv]
            isErr == Result_isErr(this).val = Bool(TRUE)
            handler == IF isErr THEN last.args[2] ELSE last.args[1]
            payload == IF isErr THEN this.error ELSE this.value
            h == Apply(handler, payload)
        IN  /\ calls = <<[fn |-> handler, arg |-> payload]>>
            /\ last.out = [kind |-> h.kind, val |-> h.val, obj |-> 0]

\* C6 witness: match on Result.err(null) ran onErr, once, with null.
C6_Witness ==
    /\ last.op = "match"
    /\ OnNewest("err")
    /\ born.val = Null
    /\ Len(calls) = 1
    /\ calls[1].fn.id = "onErr"
    /\ calls[1].arg = Null

(***************************************************************************)
(* Claims about Option, checked under OptionSpec.                          *)
(***************************************************************************)
\* C7: Option.some(v) raises "Cannot create a Some Option with an undefined
\* value." when v is undefined and "Cannot create a Some Option with a null
\* value." when v is null, creating no Option; for every other v (0, ""
\* and false included) it returns a present Option with isSome() true and
\* unwrap() = v.
C7_SomeStep ==
    last'.op = "some" =>
        LET value == last'.args[1]
        IN  IF value = Undefined
            THEN /\ last'.out = Outcome(Throw(ErrorObj(
                        "Cannot create a Some Option with an undefined value.")))
                 /\ options' = options
            ELSE IF value = Null
            THEN /\ last'.out = Outcome(Throw(ErrorObj(
                        "Cannot create a Some Option with a null value.")))
                 /\ options' = options
            ELSE /\ last'.out = OutcomeNew(Len(options) + 1)
                 /\ Len(options') = Len(options) + 1
                 /\ Option_isSome(options'[Len(options')]) = Return(Bool(TRUE))
                 /\ Option_unwrap(options'[Len(options')]) = Return(value)

C7_SomeValidates == [][C7_SomeStep]_vars

\* C7 witness: Option.some(null) was called and threw.
C7_Witness ==
    /\ last.op = "some"
    /\ last.args[1] = Null
    /\ last.out.kind = "throw"

\* C8: Option.from(v) never fails: it returns an absent Option (isNone()
\* true) exactly when v is undefined or null, and otherwise a present
\* Option with isSome() true and unwrap() = v (0, "" and false included).
C8_FromNeverFails ==
    last.op = "from" =>
        /\ last.out.kind = "return"
        /\ last.out.obj \in 1..Len(options)
        /\ LET value == last.args[1]
               new == options[last.out.obj]
           IN  /\ (Option_isNone(new) = Return(Bool(TRUE))) <=> (value \in Sentinels)
               /\ value \notin Sentinels =>
                      /\ Option_isSome(new) = Return(Bool(TRUE))
                      /\ Option_unwrap(new) = Return(value)

\* C8 witness: Option.from(null) returned an absent Option.
C8_Witness ==
    /\ last.op = "from"
    /\ last.args[1] = Null
    /\ last.out.obj > 0
    /\ Option_isNone(options[last.out.obj]) = Return(Bool(TRUE))

\* C9: Option.map(mapper) on an absent Option does not invoke the mapper and
\* returns an absent Option; on a present Option holding v, when the mapper
\* returns, the outcome equals Option.from(mapper(v)): absent when
\* mapper(v) is undefined or null, otherwise present holding mapper(v); so
\* no mapper return value makes map raise the Option.some validation error.
C9_MapOnOption ==
    last.op = "map" =>
        LET this == options[last.recv]
            mapper == last.args[1]
            f == Apply(mapper, this.value)
        IN  IF Option_isNone(this) = Return(Bool(TRUE))
            THEN /\ calls = <<>>
                 /\ last.out.kind = "return"
                 /\ last.out.obj \in (1..Len(options)) \ {last.recv}
                 /\ Option_isNone(options[last.out.obj]) = Return(Bool(TRUE))
            ELSE /\ calls = <<[fn |-> mapper, arg |-> this.value]>>
                 /\ f.kind = "return" =>
                        /\ last.out.kind = "return"
                        /\ last.out.obj \in (1..Len(options)) \ {last.recv}
                        /\ LET new == options[last.out.obj]
                           IN  /\ new = Option_from(f.val).res
                               /\ (f.val \in Sentinels)
                                      <=> (Option_isNone(new) = Return(Bool(TRUE)))
                               /\ f.val \notin Sentinels =>
                                      /\ Option_isSome(new) = Return(Bool(TRUE))
                                      /\ Option_unwrap(new) = Return(f.val)

\* C9 witness: map on a present Option with a mapper that returned null
\* gave an absent Option.
C9_Witness ==
    /\ last.op = "map"
    /\ options[last.recv].value # Undefined
    /\ last.args[1].kind = "returns"
    /\ last.args[1].val = Null
    /\ last.out.obj > 0
    /\ Option_isNone(options[last.out.obj]) = Return(Bool(TRUE))

\* C10: after any sequence of Option.some, Option.none, Option.from,
\* Option.fromAsync and map calls, on every Option isSome() and isNone()
\* differ, and isSome() is true exactly when the held value is neither
\* undefined nor null.
C10_PresentHoldsNoSentinel ==
    \A i \in 1..Len(options) :
        /\ Option_isSome(options[i]) # Option_isNone(options[i])
        /\ (Option_isSome(options[i]) = Return(Bool(TRUE)))
               <=> (options[i].value \notin Sentinels)

\* C10 witness: the heap holds a present Option next to the absent Option
\* that fromAsync made of a promise fulfilled with null.
C10_Witness ==
    /\ task.state = "done"
    /\ task.promise = Fulfilled(Null)
    /\ task.ret.state = "fulfilled"
    /\ Option_isNone(options[task.ret.obj]) = Return(Bool(TRUE))
    /\ \E i \in 1..Len(options) : Option_isSome(options[i]) = Return(Bool(TRUE))

\* The Option is absent, as isNone() reports it.
Absent(o) == Option_isNone(o) = Return(Bool(TRUE))

\* C11: on an absent Option unwrap() raises "Attempted to unwrap a None
\* value Option." and expect(m) raises an error with exactly m, while
\* unwrapNone() and expectNone(m) return undefined; on a present Option
\* holding v, unwrap() and expect(m) return v, while unwrapNone() raises
\* "Attempted to unwrap a Some value Option." and expectNone(m) raises an
\* error with exactly m.  So exactly one of unwrap() and unwrapNone()
\* succeeds on every Option.
C11_OptionUnwrapFamily ==
    /\ last.op \in {"unwrap", "expect", "unwrapNone", "expectNone"} =>
           LET this == options[last.recv]
               absentCase ==
                   CASE last.op = "unwrap" ->
                            Throw(ErrorObj("Attempted to unwrap a None value Option."))
                     [] last.op = "expect" -> Throw(ErrorObj(last.args[1]))
                     [] OTHER -> Return(Undefined)
               presentCase ==
                   CASE last.op = "unwrapNone" ->
                            Throw(ErrorObj("Attempted to unwrap a Some value Option."))
                     [] last.op = "expectNone" -> Throw(ErrorObj(last.args[1]))
                     [] OTHER -> Return(this.value)
           IN  last.out = Outcome(IF Absent(this) THEN absentCase ELSE presentCase)
    /\ \A i \in 1..Len(options) :
           ExactlyOne(Option_unwrap(options[i]).kind = "return",
                      Option_unwrapNone(options[i]).kind = "return")

\* C11 witness: expectNone(m) on a present Option raised an error with m.
C11_Witness ==
    /\ last.op = "expectNone"
    /\ ~Absent(options[last.recv])
    /\ last.out = Outcome(Throw(ErrorObj(last.args[1])))

(***************************************************************************)
(* Claims about Result.tryAsync, checked under ResultAsyncSpec.            *)
(***************************************************************************)
\* C12: the promise Result.tryAsync returns never rejects and is not settled
\* before the underlying computation settles; when it settles it fulfils
\* with a Result: an Ok Result holding v when the computation fulfilled
\* with v, an Err Result (isErr() true, unwrapErr() = r) when it rejected
\* with r, and an Err Result holding x when fn threw x synchronously.
C12_TryAsyncCaptures ==
    /\ task.ret.state # "rejected"
    /\ task.promise.state = "pending" => task.ret.state = "pending"
    /\ task.state = "done" =>
           /\ task.ret.state = "fulfilled"
           /\ task.ret.obj \in 1..Len(results)
           /\ LET r == results[task.ret.obj]
                  settled == task.promise
              IN  /\ settled.state = "fulfilled" =>
                         /\ Result_isOk(r) = Return(Bool(TRUE))
                         /\ r.value = settled.val
                  /\ settled.state = "rejected" =>
                         /\ Result_isErr(r) = Return(Bool(TRUE))
                         /\ Result_unwrapErr(r) = Return(settled.val)
                  /\ settled.state = "threw" => r.error = settled.val

\* C12, its liveness half: once the computation has settled, the promise
\* tryAsync returned is eventually fulfilled (under ResultAsyncFairSpec).
C12_EventuallyFulfils ==
    (task.state = "awaiting" /\ task.promise.state # "pending")
        ~> (task.state = "done" /\ task.ret.state = "fulfilled")

\* A resumable async function is resumed: the job queue runs every job.
ResultAsyncFairSpec == ResultAsyncSpec /\ WF_vars(ResumeTryAsync)

(***************************************************************************)
(* Claims about Option.fromAsync, checked under OptionSpec.                *)
(***************************************************************************)
\* C13: the promise Option.fromAsync(p) returns settles only after p has
\* settled.  When p fulfilled with v it fulfils with a new Option that is
\* absent if v is null or undefined and otherwise present holding v; when
\* p rejected with r it rejects with the same r and no Option is produced.
C13_FromAsyncStep ==
    /\ task'.promise.state = "pending" => task'.ret.state = "pending"
    /\ (task.ret.state = "pending" /\ task'.ret.state # "pending") =>
           /\ task.state = "awaiting"
           /\ task.promise.state # "pending"
           /\ task'.promise = task.promise
           /\ IF task.promise.state = "fulfilled"
              THEN /\ task'.ret.state = "fulfilled"
                   /\ task'.ret.obj = Len(options) + 1
                   /\ Len(options') = Len(options) + 1
                   /\ LET o == options'[task'.ret.obj]
                          v == task.promise.val
                      IN  IF v \in Sentinels
                          THEN Absent(o)
                          ELSE ~Absent(o) /\ Option_unwrap(o) = Return(v)
              ELSE /\ task'.ret = Rejected(task.promise.val)
                   /\ options' = options

C13_FromAsyncPropagates == [][C13_FromAsyncStep]_vars

C13_Witness ==
    /\ last.op = "fromAsync.resume"
    /\ task.state = "done"
    /\ task.promise = Rejected(Str("error"))
    /\ task.ret = Rejected(Str("error"))

(***************************************************************************)
(* Claims about both classes, checked under LibrarySpec.                   *)
(***************************************************************************)
\* C14: no operation of Result or Option changes the stored payload of an
\* existing instance: every step leaves every instance on either heap as it
\* was, a map that returns returns a new instance (not its receiver), and a
\* match leaves its receiver such that the same match on it gives the same
\* result again, so that with the first part two matches with the same
\* handlers agree after any interleaving of other operations.
C14_ImmutableStep ==
    /\ Len(results') >= Len(results)
    /\ \A i \in 1..Len(results) : results'[i] = results[i]
    /\ Len(options') >= Len(options)
    /\ \A i \in 1..Len(options) : options'[i] = options[i]
    /\ (last'.op = "map" /\ last'.out.kind = "return") =>
           /\ last'.out.obj # last'.recv
           /\ \/ Len(results') = Len(results) + 1 /\ last'.out.obj = Len(results')
              \/ Len(options') = Len(options) + 1 /\ last'.out.obj = Len(options')
    /\ last'.op = "match" =>
           LET again == IF results' # <<>>
                        THEN Result_match(results'[last'.recv], last'.args[1], last'.args[2])
                        ELSE Option_match(options'[last'.recv], last'.args[1], last'.args[2])
           IN  last'.out = Outcome(again) /\ calls' = again.calls

C14_InstancesAreImmutable == [][C14_ImmutableStep]_vars

C14_Witness ==
    /\ last.op = "or"
    /\ results # <<>>
    /\ results[last.recv].value = Undefined
    /\ last.out = Outcome(Return(Num(0)))

(***************************************************************************)
(* Claims about the slots of a Result, checked under ResultAsyncSpec.      *)
(***************************************************************************)
\* A slot is populated when it holds anything but undefined: the test every
\* method of Result applies to it.
Populated(slot) == slot # Undefined

\* C15: every Result obtainable from ok, err, try, tryAsync and map has
\* exactly one of its two payload slots (value, error) populated, never
\* both and never neither, an omitted value or error included.
C15_ExactlyOneSlot ==
    \A i \in 1..Len(results) :
        ExactlyOne(Populated(results[i].value), Populated(results[i].error))

(***************************************************************************)
(* Claims about failures inside Option.map, checked under OptionSpec.      *)
(***************************************************************************)
\* C16: Option.map does not capture mapper failures.  A map step on a
\* present Option with a mapper that throws x raises x to the caller,
\* returns no Option and leaves the receiver (and every other Option)
\* unchanged; on an absent Option a throwing mapper is never invoked and
\* map returns an absent Option.
C16_MapStep ==
    (last'.op = "map" /\ last'.args[1].kind = "throws") =>
        LET this == options[last'.recv]
            x == last'.args[1].val
        IN  IF Absent(this)
            THEN /\ calls' = <<>>
                 /\ last'.out = OutcomeNew(Len(options) + 1)
                 /\ Len(options') = Len(options) + 1
                 /\ Absent(options'[last'.out.obj])
                 /\ options'[last'.recv] = this
            ELSE /\ last'.out = Outcome(Throw(x))
                 /\ options' = options
                 /\ calls' = <<[fn |-> last'.args[1], arg |-> this.value]>>

C16_MapPropagatesFailures == [][C16_MapStep]_vars

C16_Witness ==
    /\ last.op = "map"
    /\ ~Absent(options[last.recv])
    /\ last.args[1] = Throws("mapper", Num(42))
    /\ last.out = Outcome(Throw(Num(42)))
====
